---- MODULE Spec2Model ----
(***************************************************************************)
(* A model of the content workflow bot of src/main.py: the link codec      *)
(* (encode_payload / decode_payload), the subscription gate and router of  *)
(* start_handler, the batch collector (start_batch / handle_upload), the   *)
(* two-step classification callbacks (product_selected / flavor_selected)  *)
(* and the distribution loop.                                              *)
(*                                                                         *)
(* Python strings are sequences of one-character strings, bytes are        *)
(* sequences of integers 0..255.  A call that can raise returns a record   *)
(* [raised |-> BOOLEAN, val |-> ...].                                      *)
(***************************************************************************)
EXTENDS Integers, Sequences, FiniteSets, TLC

VARIABLES
    env,          \* the process environment read at lines 24-41 (fixed after start)
    files,        \* table files: files[id] is the row with that SERIAL id
    batches,      \* table batches: a function from the ids of the rows present
    nextBatchId,  \* the SERIAL counter of batches.id
    users,        \* table users
    kbs,          \* the keyboard messages in the owner's chat, in the order sent
    retry,        \* the "Try Again" affordances of the Access Restricted replies
    sinceBatch,   \* the uploads handled since the last accepted /batch command
    tasks,        \* handlers suspended at an await (the interleaved specification)
    last          \* what the handler that ran last received and did

vars == <<env, files, batches, nextBatchId, users, kbs, retry, sinceBatch, tasks, last>>

(***************************************************************************)
(* Bounds of the model.                                                    *)
(***************************************************************************)
MaxId == 1200

BigIds == {65535, 999999, 2147483647}

(***************************************************************************)
(* Python values.                                                          *)
(***************************************************************************)
Returned(v) == [raised |-> FALSE, val |-> v]

Raised == [raised |-> TRUE, val |-> 0]

\* The printable ASCII characters, code 32 first (code 96 is spelled GRAVE).
Printable ==
    << " ", "!", "\"", "#", "$", "%", "&", "'", "(", ")", "*", "+", ",", "-", ".", "/",
       "0", "1", "2", "3", "4", "5", "6", "7", "8", "9", ":", ";", "<", "=", ">", "?",
       "@", "A", "B", "C", "D", "E", "F", "G", "H", "I", "J", "K", "L", "M", "N", "O",
       "P", "Q", "R", "S", "T", "U", "V", "W", "X", "Y", "Z", "[", "\\", "]", "^", "_",
       "GRAVE", "a", "b", "c", "d", "e", "f", "g", "h", "i", "j", "k", "l", "m", "n", "o",
       "p", "q", "r", "s", "t", "u", "v", "w", "x", "y", "z", "{", "|", "}", "~" >>

\* The place of each printable character in Printable.
PrintableIndex ==
    [ch \in {Printable[i] : i \in 1..Len(Printable)} |->
        CHOOSE i \in 1..Len(Printable) : Printable[i] = ch]

Ord(ch) == 31 + PrintableIndex[ch]

Chr(c) == Printable[c - 31]

\* str(n) of an int
RECURSIVE StrNat(_)
StrNat(n) ==
    IF n < 10 THEN <<Chr(48 + n)>> ELSE StrNat(n \div 10) \o <<Chr(48 + (n % 10))>>

Str(n) == IF n < 0 THEN <<"-">> \o StrNat(-n) ELSE StrNat(n)

\* s.encode() of an ASCII string
StrEncode(s) == [i \in 1..Len(s) |-> Ord(s[i])]

\* s.startswith(prefix)
StartsWith(s, prefix) ==
    /\ Len(s) >= Len(prefix)
    /\ SubSeq(s, 1, Len(prefix)) = prefix

\* s.split(sep, maxsplit) for a one-character sep: the pieces between the first
\* maxsplit occurrences of sep; maxsplit = -1 splits at every occurrence.
Split(s, sep, maxsplit) ==
    LET pos == SelectSeq([i \in 1..Len(s) |-> i], LAMBDA i : s[i] = sep)
        m == IF maxsplit < 0 \/ maxsplit > Len(pos) THEN Len(pos) ELSE maxsplit
    IN  [k \in 1..(m + 1) |->
            SubSeq(s, IF k = 1 THEN 1 ELSE pos[k - 1] + 1,
                      IF k = m + 1 THEN Len(s) ELSE pos[k] - 1)]

\* s.strip(ch)
RECURSIVE StripChar(_, _)
StripChar(s, ch) ==
    IF s = <<>> THEN s
    ELSE IF s[1] = ch THEN StripChar(Tail(s), ch)
    ELSE IF s[Len(s)] = ch THEN StripChar(SubSeq(s, 1, Len(s) - 1), ch)
    ELSE s

\* The code points str.strip() and int() treat as white space, below 128.
WhiteSpace == {9, 10, 11, 12, 13, 28, 29, 30, 31, 32}

IsDigit(c) == c >= 48 /\ c <= 57

\* The digits of an int() literal after the sign: decimal digits, single underscores
\* only between two digits.
DigitsOk(d) ==
    /\ d # <<>>
    /\ \A i \in 1..Len(d) :
          \/ IsDigit(d[i])
          \/ /\ d[i] = 95
             /\ i > 1 /\ i < Len(d)
             /\ IsDigit(d[i - 1]) /\ IsDigit(d[i + 1])

RECURSIVE DigitsVal(_, _)
DigitsVal(d, acc) ==
    IF d = <<>> THEN acc
    ELSE IF d[1] = 95 THEN DigitsVal(Tail(d), acc)
    ELSE DigitsVal(Tail(d), 10 * acc + (d[1] - 48))

RECURSIVE StripSpace(_)
StripSpace(c) ==
    IF c = <<>> THEN c
    ELSE IF c[1] \in WhiteSpace THEN StripSpace(Tail(c))
    ELSE IF c[Len(c)] \in WhiteSpace THEN StripSpace(SubSeq(c, 1, Len(c) - 1))
    ELSE c

\* int(s) of a string given by its code points, all below 128: white space is
\* stripped, then an optional sign, then the digits.
PyInt(codes) ==
    LET c == StripSpace(codes)
        signed == c # <<>> /\ c[1] \in {43, 45}
        d == IF signed THEN Tail(c) ELSE c
    IN  IF ~DigitsOk(d) THEN Raised
        ELSE IF signed /\ c[1] = 45 THEN Returned(0 - DigitsVal(d, 0))
        ELSE Returned(DigitsVal(d, 0))

\* int(s) of a string of printable characters
IntOfStr(s) == PyInt(StrEncode(s))

(***************************************************************************)
(* LinkCodec: base64.urlsafe_b64encode / urlsafe_b64decode and the two     *)
(* functions of lines 150-155.                                             *)
(***************************************************************************)
\* The URL-safe alphabet, value 0 first.
UrlSafeAlphabet ==
    << "A", "B", "C", "D", "E", "F", "G", "H", "I", "J", "K", "L", "M", "N", "O", "P",
       "Q", "R", "S", "T", "U", "V", "W", "X", "Y", "Z", "a", "b", "c", "d", "e", "f",
       "g", "h", "i", "j", "k", "l", "m", "n", "o", "p", "q", "r", "s", "t", "u", "v",
       "w", "x", "y", "z", "0", "1", "2", "3", "4", "5", "6", "7", "8", "9", "-", "_" >>

\* One group of one to three bytes as four characters, "=" for the missing ones.
B64Group(g) ==
    LET n == Len(g)
        v == g[1] * 65536 + (IF n >= 2 THEN g[2] * 256 ELSE 0) + (IF n >= 3 THEN g[3] ELSE 0)
        c(k) == UrlSafeAlphabet[k + 1]
    IN  << c(v \div 262144), c((v \div 4096) % 64),
           IF n >= 2 THEN c((v \div 64) % 64) ELSE "=",
           IF n >= 3 THEN c(v % 64) ELSE "=" >>

RECURSIVE urlsafe_b64encode(_)
urlsafe_b64encode(bytes) ==
    IF bytes = <<>> THEN <<>>
    ELSE IF Len(bytes) <= 3 THEN B64Group(bytes)
    ELSE B64Group(SubSeq(bytes, 1, 3)) \o urlsafe_b64encode(SubSeq(bytes, 4, Len(bytes)))

encode_payload(payload) == StripChar(urlsafe_b64encode(StrEncode(Str(payload))), "=")

\* The value of a character in the standard alphabet after urlsafe_b64decode has
\* translated "-" to "+" and "_" to "/"; 64 for a character outside the alphabet.
B64Value(ch) ==
    LET t == IF ch = "-" THEN "+" ELSE IF ch = "_" THEN "/" ELSE ch
    IN  IF t = "+" THEN 62
        ELSE IF t = "/" THEN 63
        ELSE IF \E i \in 1..62 : UrlSafeAlphabet[i] = t
             THEN (CHOOSE i \in 1..62 : UrlSafeAlphabet[i] = t) - 1
        ELSE 64

\* binascii.a2b_base64 in its default, non-strict mode: characters outside the
\* alphabet are skipped, a pad ends the input once the open quad holds two or
\* three characters and the pads complete it, and input that ends inside a quad
\* raises.
RECURSIVE a2b_base64(_, _, _, _, _)
a2b_base64(data, quad_pos, leftchar, pads, out) ==
    IF data = <<>>
    THEN IF quad_pos # 0 THEN Raised ELSE Returned(out)
    ELSE LET ch == data[1]
             rest == Tail(data)
             v == B64Value(ch)
         IN  IF ch = "="
             THEN IF quad_pos >= 2 /\ quad_pos + pads + 1 >= 4
                  THEN Returned(out)
                  ELSE a2b_base64(rest, quad_pos, leftchar,
                                  IF quad_pos >= 2 THEN pads + 1 ELSE pads, out)
             ELSE IF v >= 64
             THEN a2b_base64(rest, quad_pos, leftchar, pads, out)
             ELSE CASE quad_pos = 0 -> a2b_base64(rest, 1, v, 0, out)
                    [] quad_pos = 1 ->
                         a2b_base64(rest, 2, v % 16, 0,
                                    Append(out, leftchar * 4 + (v \div 16)))
                    [] quad_pos = 2 ->
                         a2b_base64(rest, 3, v % 4, 0,
                                    Append(out, leftchar * 16 + (v \div 4)))
                    [] OTHER ->
                         a2b_base64(rest, 0, 0, 0, Append(out, leftchar * 64 + v))

urlsafe_b64decode(s) == a2b_base64(s, 0, 0, 0, <<>>)

\* bytes.decode() followed by int(): a byte sequence with a byte of 128 or more
\* is no ASCII text.
IntOfBytes(bytes) ==
    IF \E i \in 1..Len(bytes) : bytes[i] >= 128 THEN Raised ELSE PyInt(bytes)

\* A decode_payload that forgets to restore the padding.
PaddingNone(payload) == <<>>

Padding(payload) == [i \in 1..(4 - (Len(payload) % 4)) |-> "="]

decode_payload(payload) ==
    LET raw == urlsafe_b64decode(payload \o Padding(payload))
    IN  IF raw.raised THEN Raised ELSE IntOfBytes(raw.val)

(***************************************************************************)
(* Configuration, lines 22-60.                                             *)
(***************************************************************************)
DONUT == <<"d", "o", "n", "u", "t">>

BROWNIE == <<"b", "r", "o", "w", "n", "i", "e">>

ECLAIR == <<"e", "c", "l", "a", "i", "r">>

PEACHPIE == <<"p", "e", "a", "c", "h", "p", "i", "e">>

CREAMROLL == <<"c", "r", "e", "a", "m", "r", "o", "l", "l">>

BERRY == <<"b", "e", "r", "r", "y">>

MACARON == <<"m", "a", "c", "a", "r", "o", "n">>

LAVACAKE == <<"l", "a", "v", "a", "c", "a", "k", "e">>

DESI == <<"d", "e", "s", "i">>

ASIAN == <<"a", "s", "i", "a", "n">>

WESTERN == <<"w", "e", "s", "t", "e", "r", "n">>

AFRICAN == <<"a", "f", "r", "i", "c", "a", "n">>

\* The keys of PRODUCTS, in the order of the dictionary.
PRODUCTS == <<DONUT, BROWNIE, ECLAIR, PEACHPIE, CREAMROLL, BERRY, MACARON, LAVACAKE>>

\* The keys of FLAVORS, in the order of the dictionary.
FLAVORS == <<DESI, ASIAN, WESTERN, AFRICAN>>

ProductTags == {PRODUCTS[i] : i \in 1..Len(PRODUCTS)}

FlavorTags == {FLAVORS[i] : i \in 1..Len(FLAVORS)}

EnvKeys ==
    {"OWNER_ID", "DB_CHANNEL_ID", "FS_CHANNEL_ID", "FS_CHANNEL_ID_2", "LOG_CHANNEL_ID",
     "CH_DONUT_ID", "CH_BROWNIE_ID", "CH_ECLAIR_ID", "CH_PEACH_ID", "CH_SOFT_ID"}

\* get_env_int(key) under environment e: e[key] is 0 for a variable that is unset
\* or not a number.
get_env_int(e, key) == e[key]

OWNER_ID(e) == get_env_int(e, "OWNER_ID")

DB_CHANNEL_ID(e) == get_env_int(e, "DB_CHANNEL_ID")

FS_CHANNEL_ID(e) == get_env_int(e, "FS_CHANNEL_ID")

FS_CHANNEL_ID_2(e) == get_env_int(e, "FS_CHANNEL_ID_2")

LOG_CHANNEL_ID(e) == get_env_int(e, "LOG_CHANNEL_ID")

\* CHANNEL_MAP: every product tag is a key; its value is 0 when its variable is unset.
CHANNEL_MAP(e) ==
    [p \in ProductTags |->
        CASE p = DONUT -> get_env_int(e, "CH_DONUT_ID")
          [] p = BROWNIE -> get_env_int(e, "CH_BROWNIE_ID")
          [] p = ECLAIR -> get_env_int(e, "CH_ECLAIR_ID")
          [] p = PEACHPIE -> get_env_int(e, "CH_PEACH_ID")
          [] p = CREAMROLL -> get_env_int(e, "CH_SOFT_ID")
          [] p = BERRY -> get_env_int(e, "CH_SOFT_ID")
          [] p = MACARON -> get_env_int(e, "CH_SOFT_ID")
          [] p = LAVACAKE -> get_env_int(e, "CH_BROWNIE_ID")]

\* An environment with every variable set, each channel its own id.
FullEnv ==
    [k \in EnvKeys |->
        CASE k = "OWNER_ID" -> 1
          [] k = "DB_CHANNEL_ID" -> 10
          [] k = "FS_CHANNEL_ID" -> 11
          [] k = "FS_CHANNEL_ID_2" -> 12
          [] k = "LOG_CHANNEL_ID" -> 13
          [] k = "CH_DONUT_ID" -> 21
          [] k = "CH_BROWNIE_ID" -> 22
          [] k = "CH_ECLAIR_ID" -> 23
          [] k = "CH_PEACH_ID" -> 24
          [] k = "CH_SOFT_ID" -> 25]

(***************************************************************************)
(* The state after construction: init_db has created the empty tables.     *)
(***************************************************************************)
\* No /batch command has been accepted yet.
NoBatch == [id |-> 0, n |-> 0, uploads |-> <<>>]

EmptyStore ==
    /\ files = <<>>
    /\ batches = <<>>
    /\ nextBatchId = 1
    /\ users = {}
    /\ kbs = <<>>
    /\ retry = {}
    /\ sinceBatch = NoBatch
    /\ tasks = <<>>

(***************************************************************************)
(* LinkCodec as a specification: an id is drawn, encoded, then decoded.    *)
(***************************************************************************)
InitCodec ==
    /\ env = FullEnv
    /\ EmptyStore
    /\ \E x \in (0..MaxId) \cup BigIds : last = [op |-> "id", x |-> x]

CodecEncode ==
    /\ last.op = "id"
    /\ last' = [op |-> "encoded", x |-> last.x, token |-> encode_payload(last.x)]
    /\ UNCHANGED <<env, files, batches, nextBatchId, users, kbs, retry, sinceBatch, tasks>>

CodecDecode ==
    /\ last.op = "encoded"
    /\ last' = [op |-> "decoded", x |-> last.x, token |-> last.token,
                result |-> decode_payload(last.token)]
    /\ UNCHANGED <<env, files, batches, nextBatchId, users, kbs, retry, sinceBatch, tasks>>

NextCodec == CodecEncode \/ CodecDecode

SpecCodec == InitCodec /\ [][NextCodec]_vars

HasPad(token) == \E i \in 1..Len(token) : token[i] = "="

\* C1: decode_payload(encode_payload(x)) returns x for every id x of the range, and
\* the token encode_payload produces holds no "=", also when its length is a
\* multiple of 4 and decode_payload appends four of them.
C1_RoundTrip ==
    /\ last.op \in {"encoded", "decoded"} => ~HasPad(last.token)
    /\ last.op = "decoded" => last.result = Returned(last.x)

\* C1 witness: a token whose length is a multiple of 4 has been decoded to its id.
C1_Witness ==
    /\ last.op = "decoded"
    /\ Len(last.token) % 4 = 0
    /\ Len(Padding(last.token)) = 4
    /\ last.result = Returned(last.x)

(***************************************************************************)
(* start_handler, lines 159-217: the subscription gate, then the router.   *)
(***************************************************************************)
\* SQL NULL in a text column: no string of characters equals it.
NULL == <<"NULL">>

\* What bot.get_chat_member can give: a member status, or an exception.
LookupOutcomes == {"member", "left", "kicked", "error"}

NonMember == {"left", "kicked"}

\* A gate that fails closed: a lookup that raises counts as not subscribed.
is_subscribed_failclosed(status) == status \notin (NonMember \cup {"error"})

\* A gate that lets everybody in.
is_subscribed_open(status) == TRUE

\* is_subscribed, lines 142-147, on the outcome of its lookup
is_subscribed(status) ==
    IF status = "error" THEN TRUE
    ELSE IF status \in NonMember THEN FALSE
    ELSE TRUE

\* The lookups line 165 performs: "and" does not evaluate its right side when the
\* left one is false.
GateLookups(sA, sB) == IF is_subscribed(sA) THEN <<sA, sB>> ELSE <<sA>>

GatePasses(sA, sB) == is_subscribed(sA) /\ is_subscribed(sB)

START == <<"s", "t", "a", "r", "t">>

BROWSE_ == <<"b", "r", "o", "w", "s", "e", "_">>

SLASH_START == <<"/", "s", "t", "a", "r", "t">>

\* A retry affordance that drops the deep-link payload.
BlockedPayloadGeneric(text) == START

\* lines 171-172: the payload the "Try Again" URL carries
BlockedPayload(text) ==
    LET args == Split(text, " ", 0 - 1)
    IN  IF Len(args) > 1 THEN args[2] ELSE START

\* lines 183-184: the payload the router reads
RouterPayload(text) ==
    LET args == Split(text, " ", 0 - 1)
    IN  IF Len(args) > 1 THEN args[2] ELSE <<>>

\* The message text a client sends for https://t.me/<bot>?start=<payload>
\* (the URLs of lines 177 and 222, and the deep links of line 339).
DeepLinkText(payload) ==
    IF payload = <<>> THEN SLASH_START ELSE SLASH_START \o <<" ">> \o payload

NoTarget == [kind |-> "none", p1 |-> <<>>, p2 |-> <<>>]

\* The branch of the router (lines 186-217) a payload takes and what it names:
\* a browse pair, a token, or the menu.
Route(payload) ==
    IF StartsWith(payload, BROWSE_)
    THEN LET parts == Split(payload, "_", 0 - 1)
         IN  IF Len(parts) = 3
             THEN [kind |-> "browse", p1 |-> parts[2], p2 |-> parts[3]]
             ELSE [kind |-> "invalid_menu", p1 |-> <<>>, p2 |-> <<>>]
    ELSE IF payload # <<>> /\ payload # START
    THEN [kind |-> "token", p1 |-> payload, p2 |-> <<>>]
    ELSE [kind |-> "menu", p1 |-> <<>>, p2 |-> <<>>]

\* get_next_video, lines 128-135: the rows the random choice is among
Candidates(fs, prod, flav) ==
    {i \in DOMAIN fs : fs[i].product = prod /\ fs[i].flavor = flav}

\* The router, lines 182-217, as the calls it makes in order, the reply it ends
\* with and the row it sent (0: none).  pick is the row ORDER BY RANDOM() chose
\* (0: no row matches), sendOk whether send_video_to_user returned.
RouterRun(fs, payload, pick, sendOk) ==
    LET r == Route(payload)
        db_id == decode_payload(payload)
    IN  CASE r.kind = "browse" ->
               IF pick = 0
               THEN [calls |-> <<"get_next_video">>, reply |-> "none_found", sent |-> 0]
               ELSE IF sendOk
               THEN [calls |-> <<"get_next_video", "send_media">>, reply |-> "media",
                     sent |-> pick]
               ELSE [calls |-> <<"get_next_video", "send_media">>,
                     reply |-> "invalid_menu", sent |-> 0]
          [] r.kind = "invalid_menu" ->
               [calls |-> <<>>, reply |-> "invalid_menu", sent |-> 0]
          [] r.kind = "token" ->
               IF db_id.raised
               THEN [calls |-> <<"decode_payload">>, reply |-> "invalid_link", sent |-> 0]
               ELSE IF db_id.val \notin DOMAIN fs
               THEN [calls |-> <<"decode_payload", "get_file">>,
                     reply |-> "not_found", sent |-> 0]
               ELSE IF sendOk
               THEN [calls |-> <<"decode_payload", "get_file", "send_media">>,
                     reply |-> "media", sent |-> db_id.val]
               ELSE [calls |-> <<"decode_payload", "get_file", "send_media">>,
                     reply |-> "invalid_link", sent |-> 0]
          [] OTHER -> [calls |-> <<>>, reply |-> "menu", sent |-> 0]

\* The rows the router can be handed for a payload: the random choice of a browse,
\* 0 when no row matches or the payload does not browse.
Picks(fs, payload) ==
    LET r == Route(payload)
    IN  IF r.kind = "browse" /\ Candidates(fs, r.p1, r.p2) # {}
        THEN Candidates(fs, r.p1, r.p2)
        ELSE {0}

\* The outcomes of send_video_to_user the router can meet: it returns, or (when
\* the router gets to call it) it raises.
SendOutcomes(fs, payload, pick) ==
    LET r == Route(payload)
        db_id == decode_payload(payload)
    IN  IF \/ r.kind = "browse" /\ pick # 0
           \/ r.kind = "token" /\ ~db_id.raised /\ db_id.val \in DOMAIN fs
        THEN {TRUE, FALSE}
        ELSE {TRUE}

\* The runs of the router on a payload, one for each choice of row and send outcome.
RouterRuns(fs, payload) ==
    {RouterRun(fs, payload, pick, sendOk) :
        pick \in Picks(fs, payload),
        sendOk \in UNION {SendOutcomes(fs, payload, k) : k \in Picks(fs, payload)}}

\* The outcomes of the two lookups of line 165: the second is not made when the
\* first one fails.
GateOutcomes ==
    {GateLookups(sA, sB) : sA \in LookupOutcomes, sB \in LookupOutcomes}

GateCalls(lookups) ==
    <<"add_user">> \o [i \in 1..Len(lookups) |-> "get_chat_member"]

\* One start event: user u sends text.  orig is the deep-link payload the event
\* stems from, via whether it was sent through a "Try Again" affordance.
start_handler(u, text, orig, via) ==
    LET payload == RouterPayload(text)
        runs == RouterRuns(files, payload)
        target == Route(payload)
        affordance == [user |-> u, payload |-> BlockedPayload(text), orig |-> orig]
    IN  \E lookups \in GateOutcomes :
            /\ users' = users \cup {u}
            /\ IF ~GatePasses(lookups[1], IF Len(lookups) > 1 THEN lookups[2] ELSE "member")
               THEN /\ retry' = {affordance}
                    /\ last' = [op |-> "start", user |-> u, text |-> text, orig |-> orig,
                                via |-> via, lookups |-> lookups, blocked |-> TRUE,
                                calls |-> GateCalls(lookups)
                                           \o <<"get_chat", "get_chat", "get_me">>,
                                reply |-> "access_restricted", sent |-> 0,
                                target |-> NoTarget]
               ELSE /\ \E run \in runs :
                          last' = [op |-> "start", user |-> u, text |-> text,
                                   orig |-> orig, via |-> via, lookups |-> lookups,
                                   blocked |-> FALSE,
                                   calls |-> GateCalls(lookups) \o run.calls,
                                   reply |-> run.reply, sent |-> run.sent,
                                   target |-> target]
                    /\ UNCHANGED retry
            /\ UNCHANGED <<env, files, batches, nextBatchId, kbs, sinceBatch, tasks>>

\* The users of the model: the owner and a visitor.
Users == {OWNER_ID(FullEnv), 2}

\* The deep-link payloads of the model: none, tokens of rows present and absent, a
\* string that is no token, browse links well and ill formed, and "start".
StartPayloads ==
    { <<>>, encode_payload(1), encode_payload(7), <<"A">>,
      <<"b", "r", "o", "w", "s", "e", "_", "d", "o", "n", "u", "t", "_", "d", "e", "s", "i">>,
      <<"b", "r", "o", "w", "s", "e", "_", "d", "o", "n", "u", "t">>, START }

\* A user opens a deep link.
StartFresh ==
    \E u \in Users, p \in StartPayloads : start_handler(u, DeepLinkText(p), p, FALSE)

\* A user follows the "Try Again" affordance of an Access Restricted reply.
StartRetry ==
    \E r \in retry : start_handler(r.user, DeepLinkText(r.payload), r.orig, TRUE)

\* The store the start events are checked over: rows as handle_upload and
\* flavor_selected leave them.
FileRow(product, flavor) == [product |-> product, flavor |-> flavor, views |-> 0]

\* Rows 1 and 3 classified alike, row 2 not yet classified.
StartStore == <<FileRow(DONUT, DESI), FileRow(NULL, NULL), FileRow(DONUT, DESI)>>

InitStart ==
    /\ env = FullEnv
    /\ files = StartStore
    /\ batches = <<>>
    /\ nextBatchId = 1
    /\ users = {}
    /\ kbs = <<>>
    /\ retry = {}
    /\ sinceBatch = NoBatch
    /\ tasks = <<>>
    /\ last = [op |-> "init"]

NextStart == StartFresh \/ StartRetry

SpecStart == InitStart /\ [][NextStart]_vars

ContentCalls == {"decode_payload", "get_file", "get_next_video", "send_media"}

ReportsNonMember(lookups) == \E i \in 1..Len(lookups) : lookups[i] \in NonMember

\* C2: the start handler treats the user as Blocked exactly when a membership lookup
\* it made reports left or kicked; a lookup that raises counts as satisfied.
C2_GateOutcome ==
    last.op = "start" => (last.blocked <=> ReportsNonMember(last.lookups))

\* C2 witness: the lookup on the first channel raised, the second reported a
\* member, and the user was let through.
C2_Witness ==
    /\ last.op = "start"
    /\ last.lookups = <<"error", "member">>
    /\ ~last.blocked

\* C3: a start event decodes no payload, reads no content row and sends no media
\* unless no lookup of that event reported a non-member, and then only after the
\* lookups; a Blocked start event ends with the join/retry message and has sent
\* nothing else.
C3_GateBeforeContent ==
    last.op = "start" =>
        /\ \A i \in 1..Len(last.calls) :
              last.calls[i] \in ContentCalls =>
                  /\ ~ReportsNonMember(last.lookups)
                  /\ \A j \in 1..Len(last.calls) :
                        last.calls[j] = "get_chat_member" => j < i
        /\ ReportsNonMember(last.lookups) =>
              /\ last.reply = "access_restricted"
              /\ last.sent = 0
              /\ \A i \in 1..Len(last.calls) : last.calls[i] \notin ContentCalls

\* C3 witness: a Blocked start event that carried the token of a row present.
C3_Witness ==
    /\ last.op = "start"
    /\ last.blocked
    /\ last.orig = encode_payload(1)
    /\ last.reply = "access_restricted"

\* C4: the retry affordance of a Blocked start event carries the event's deep-link
\* payload, and a start event sent through it by a user who now passes the gate
\* takes the branch of the router, with the same token or browse pair, that the
\* original payload names; with no original payload it shows the menu.
C4_RetryKeepsPayload ==
    /\ last.op = "start" /\ last.blocked =>
          \A r \in retry :
              /\ r.orig = last.orig
              /\ last.orig # <<>> => r.payload = last.orig
    /\ last.op = "start" /\ last.via /\ ~last.blocked =>
          /\ last.target = Route(last.orig)
          /\ last.orig = <<>> => last.target.kind = "menu"

\* C4 witness: a retry of a Blocked browse link reached the browse branch and sent
\* a row.
C4_Witness ==
    /\ last.op = "start"
    /\ last.via
    /\ ~last.blocked
    /\ last.target.kind = "browse"
    /\ last.sent # 0

(***************************************************************************)
(* The owner's workflow: start_batch (lines 231-241), handle_upload (lines *)
(* 243-291), product_selected (lines 304-310), flavor_selected (lines      *)
(* 312-371).                                                               *)
(***************************************************************************)
MaxFiles == 2

MaxBatches == 2

MaxExpected == 2

MaxFail == 2

BATCH_CMD == <<"/", "b", "a", "t", "c", "h">>

SINGLE_ == <<"s", "i", "n", "g", "l", "e", "_">>

PROD_ == <<"p", "r", "o", "d", "_">>

FLAV_ == <<"f", "l", "a", "v", "_">>

\* str.split() without arguments, on text whose only white space is the space
SplitWs(text) == SelectSeq(Split(text, " ", 0 - 1), LAMBDA part : part # <<>>)

\* line 235: int(message.text.split()[1])
BatchCount(text) ==
    LET parts == SplitWs(text)
    IN  IF Len(parts) < 2 THEN Raised ELSE IntOfStr(parts[2])

\* The arguments the owner gives /batch in the model: counts from 0 up, and a word.
BatchArgs == {Str(n) : n \in 0..MaxExpected} \cup {<<"x">>}

BatchTexts == {BATCH_CMD} \cup {BATCH_CMD \o <<" ">> \o arg : arg \in BatchArgs}

\* line 237: INSERT INTO batches
InsertBatch(bs, id, count) ==
    [b \in DOMAIN bs \cup {id} |->
        IF b = id THEN [expected |-> count, collected |-> <<>>] ELSE bs[b]]

Unchanged(op, sender) == [op |-> op, sender |-> sender, ignored |-> TRUE]

start_batch(sender, text) ==
    /\ nextBatchId <= MaxBatches
    /\ IF sender # OWNER_ID(env)
       THEN /\ last' = Unchanged("batch", sender)
            /\ UNCHANGED <<batches, nextBatchId, sinceBatch>>
       ELSE LET count == BatchCount(text)
            IN  IF count.raised
                THEN /\ last' = [op |-> "batch", sender |-> sender, ignored |-> FALSE,
                                 text |-> text, reply |-> "usage", id |-> 0]
                     /\ UNCHANGED <<batches, nextBatchId, sinceBatch>>
                ELSE /\ batches' = InsertBatch(batches, nextBatchId, count.val)
                     /\ nextBatchId' = nextBatchId + 1
                     /\ sinceBatch' = [id |-> nextBatchId, n |-> count.val, uploads |-> <<>>]
                     /\ last' = [op |-> "batch", sender |-> sender, ignored |-> FALSE,
                                 text |-> text, reply |-> "batch_started",
                                 id |-> nextBatchId]
    /\ UNCHANGED <<env, files, users, kbs, retry, tasks>>

StartBatch == \E sender \in Users, text \in BatchTexts : start_batch(sender, text)

\* save_file, lines 108-115: the row inserted, with the next id of the sequence
save_file(fs) == Append(fs, FileRow(NULL, NULL))

\* line 275: SELECT * FROM batches WHERE admin_id=$1 ORDER BY id DESC LIMIT 1
FetchLatest(bs) ==
    IF DOMAIN bs = {}
    THEN [found |-> FALSE, id |-> 0, expected |-> 0, collected |-> <<>>]
    ELSE LET id == CHOOSE b \in DOMAIN bs : \A c \in DOMAIN bs : c <= b
         IN  [found |-> TRUE, id |-> id, expected |-> bs[id].expected,
              collected |-> bs[id].collected]

\* A batch test that asks only for a row.
HasRoomAny(batch) == batch.found

\* line 277: the batch has room
HasRoom(batch) == batch.found /\ Len(batch.collected) < batch.expected

\* A completion test that fires on the first item already.
BatchCompleteEarly(new_list, expected) == Len(new_list) >= 1

\* line 281: the batch is complete
BatchComplete(new_list, expected) == Len(new_list) >= expected

\* line 279: UPDATE batches SET collected_ids=$1 WHERE id=$2 (no row: no effect)
UpdateCollected(bs, id, new_list) ==
    [b \in DOMAIN bs |-> IF b = id THEN [bs[b] EXCEPT !.collected = new_list] ELSE bs[b]]

\* A single-item reference without its marker.
SingleRefBare(db_id) == Str(db_id)

\* line 288: the reference of a single upload
SingleRef(db_id) == SINGLE_ \o Str(db_id)

\* line 282: the reference of a batch (the f-string of line 297 formats the id)
BatchRef(id) == Str(id)

\* line 297: the callback data of the button of product k
ProdData(k, ref) == PROD_ \o k \o <<"_">> \o ref

\* build_product_kb, lines 293-302: the keyboard, by the callback data of its
\* buttons in the order of PRODUCTS.
build_product_kb(ref) == [i \in 1..Len(PRODUCTS) |-> ProdData(PRODUCTS[i], ref)]

\* The message handle_upload sends with the keyboard (lines 283, 289), as the
\* owner's chat shows it: buttons is the callback data of the buttons on it now.
\* ref, kind and id say what it was sent for; prod and flav which buttons have
\* been pressed on it.
Prompt(ref, kind, id) ==
    [ref |-> ref, kind |-> kind, id |-> id, stage |-> "product", prod |-> <<>>,
     flav |-> <<>>, buttons |-> build_product_kb(ref)]

\* Lines 273-289 of handle_upload for the row db_id just saved and the batch row
\* fetched: the new table, the keyboard sent (if any), and what the owner is told.
UploadOutcome(bs, batch, db_id) ==
    IF HasRoom(batch)
    THEN LET new_list == Append(batch.collected, db_id)
         IN  [batches |-> UpdateCollected(bs, batch.id, new_list),
              kb |-> IF BatchComplete(new_list, batch.expected)
                     THEN <<Prompt(BatchRef(batch.id), "batch", batch.id)>>
                     ELSE <<>>,
              reply |-> IF BatchComplete(new_list, batch.expected)
                        THEN "batch_collected" ELSE "saved",
              collected |-> new_list]
    ELSE [batches |-> bs,
          kb |-> <<Prompt(SingleRef(db_id), "single", db_id)>>,
          reply |-> "single",
          collected |-> <<>>]

UploadRecord(sender, db_id, batch, out) ==
    [op |-> "upload", sender |-> sender, ignored |-> FALSE, db_id |-> db_id,
     batch |-> batch, reply |-> out.reply, collected |-> out.collected,
     ref |-> IF out.kb = <<>> THEN <<>> ELSE out.kb[1].ref]

handle_upload(sender) ==
    /\ Len(files) < MaxFiles
    /\ IF sender # OWNER_ID(env)
       THEN /\ last' = Unchanged("upload", sender)
            /\ UNCHANGED <<files, batches, kbs, sinceBatch>>
       ELSE LET db_id == Len(files) + 1
                batch == FetchLatest(batches)
                out == UploadOutcome(batches, batch, db_id)
            IN  /\ files' = save_file(files)
                /\ batches' = out.batches
                /\ kbs' = kbs \o out.kb
                /\ sinceBatch' =
                      [sinceBatch EXCEPT !.uploads =
                          Append(@, [db_id |-> db_id, reply |-> out.reply,
                                     collected |-> out.collected,
                                     ref |-> IF out.kb = <<>> THEN <<>> ELSE out.kb[1].ref])]
                /\ last' = UploadRecord(sender, db_id, batch, out)
    /\ UNCHANGED <<env, nextBatchId, users, retry, tasks>>

HandleUpload == \E sender \in Users : handle_upload(sender)

\* The products and flavors whose buttons the owner presses in the model: DONUT has
\* a channel variable of its own, BERRY shares CH_SOFT_ID.
ClickProducts == {DONUT, BERRY}

ClickFlavors == {DESI}

\* line 306: _, prod, ref = callback.data.split("_", 2)
ParseProd(data) ==
    LET parts == Split(data, "_", 2)
    IN  IF Len(parts) # 3 THEN Raised ELSE Returned([prod |-> parts[2], ref |-> parts[3]])

\* line 309: the callback data of the button of flavor k
FlavData(prod, k, ref) == FLAV_ \o prod \o <<"_">> \o k \o <<"_">> \o ref

\* A parse that splits at every underscore.
ParseFlavAll(data) ==
    LET parts == Split(data, "_", 0 - 1)
    IN  IF Len(parts) < 4 THEN Raised
        ELSE Returned([prod |-> parts[2], flav |-> parts[3], ref |-> parts[4]])

\* line 314: _, prod, flav, ref = callback.data.split("_", 3)
ParseFlav(data) ==
    LET parts == Split(data, "_", 3)
    IN  IF Len(parts) # 4 THEN Raised
        ELSE Returned([prod |-> parts[2], flav |-> parts[3], ref |-> parts[4]])

\* product_selected, lines 304-310: the flavor keyboard it edits into the message,
\* by the callback data of its buttons in the order of FLAVORS.
FlavorKeyboard(data) ==
    LET parsed == ParseProd(data)
    IN  IF parsed.raised \/ parsed.val.prod \notin ProductTags
        THEN Raised
        ELSE Returned([i \in 1..Len(FLAVORS) |->
                          FlavData(parsed.val.prod, FLAVORS[i], parsed.val.ref)])

\* sender presses button k of message m, which shows the product keyboard; line
\* 310 puts the flavor keyboard in its place (a KeyError there leaves it as it is).
\* The handler never reads callback.from_user.
product_selected(sender, m, k) ==
    /\ kbs[m].stage = "product"
    /\ LET data == kbs[m].buttons[k]
           parsed == ParseProd(data)
           keyboard == FlavorKeyboard(data)
       IN  /\ kbs' = IF keyboard.raised THEN kbs
                     ELSE [kbs EXCEPT ![m].stage = "flavor", ![m].prod = PRODUCTS[k],
                                      ![m].buttons = keyboard.val]
           /\ last' = [op |-> "product", ignored |-> FALSE, sender |-> sender,
                       m |-> m, data |-> data,
                       fault |-> keyboard.raised,
                       prod |-> IF parsed.raised THEN <<>> ELSE parsed.val.prod,
                       ref |-> IF parsed.raised THEN <<>> ELSE parsed.val.ref]
    /\ UNCHANGED <<env, files, batches, nextBatchId, users, retry, sinceBatch, tasks>>

ProductSelected ==
    \E m \in 1..Len(kbs), k \in 1..Len(PRODUCTS) :
        PRODUCTS[k] \in ClickProducts /\ product_selected(OWNER_ID(env), m, k)

\* lines 319-324: the ids the reference resolves to and the table batches after it
Resolve(bs, ref) ==
    IF StartsWith(ref, SINGLE_)
    THEN LET db_id == IntOfStr(Split(ref, "_", 0 - 1)[2])
         IN  IF db_id.raised THEN Raised
             ELSE Returned([ids |-> <<db_id.val>>, batches |-> bs,
                            found |-> TRUE, batch |-> 0])
    ELSE LET id == IntOfStr(ref)
         IN  IF id.raised THEN Raised
             ELSE Returned([ids |-> IF id.val \in DOMAIN bs THEN bs[id.val].collected
                                    ELSE <<>>,
                            batches |-> [b \in DOMAIN bs \ {id.val} |-> bs[b]],
                            found |-> id.val \in DOMAIN bs, batch |-> id.val])

\* line 329: CHANNEL_MAP.get(prod, LOG_CHANNEL_ID)
TargetChannel(e, prod) ==
    IF prod \in DOMAIN CHANNEL_MAP(e) THEN CHANNEL_MAP(e)[prod] ELSE LOG_CHANNEL_ID(e)

\* update_file_meta, lines 117-120
update_file_meta(fs, db_id, product, flavor) ==
    [i \in DOMAIN fs |->
        IF i = db_id THEN [fs[i] EXCEPT !.product = product, !.flavor = flavor] ELSE fs[i]]

\* The two posts of one item, lines 344-369: each in a try of its own.
PostItem(db_id, i, c) ==
    << [db_id |-> db_id, chat |-> c.target, ok |-> c.oks[2 * i - 1]],
       [db_id |-> db_id, chat |-> c.dbch, ok |-> c.oks[2 * i]] >>

\* A loop that a failed post ends.
RECURSIVE LoopAborting(_, _, _, _)
LoopAborting(st, ids, i, c) ==
    IF i > Len(ids) THEN st
    ELSE IF ids[i] \notin DOMAIN st.files THEN [st EXCEPT !.fault = TRUE]
    ELSE LET posts == PostItem(ids[i], i, c)
             next == [files |-> update_file_meta(st.files, ids[i], c.prod, c.flav),
                      attempts |-> st.attempts \o posts, fault |-> FALSE]
         IN  IF posts[1].ok /\ posts[2].ok THEN LoopAborting(next, ids, i + 1, c) ELSE next

\* The distribution loop, lines 335-369, from item i on: st holds the table files and
\* the posts attempted so far; a row that is gone faults at line 341.
RECURSIVE Loop(_, _, _, _)
Loop(st, ids, i, c) ==
    IF i > Len(ids) THEN st
    ELSE IF ids[i] \notin DOMAIN st.files THEN [st EXCEPT !.fault = TRUE]
    ELSE Loop([files |-> update_file_meta(st.files, ids[i], c.prod, c.flav),
               attempts |-> st.attempts \o PostItem(ids[i], i, c),
               fault |-> FALSE],
              ids, i + 1, c)

\* Which posts of a run over n items fail, at most maxfail of them.
OkPatterns(n, maxfail) ==
    {oks \in [1..(2 * n) -> BOOLEAN] : Cardinality({j \in 1..(2 * n) : ~oks[j]}) <= maxfail}

\* Lines 314-333 of flavor_selected on callback data: the parse, the ids the
\* reference resolves to, the table batches after the delete, whether line 327 took
\* the keyboard off the message, the channel.  reply is "fault" for an exception
\* nothing catches, "channel_missing" for the message of line 332, "" when the loop
\* is to run.
FlavorRead(e, bs, data) ==
    LET parsed == ParseFlav(data)
        res == Resolve(bs, parsed.val.ref)
        target == TargetChannel(e, parsed.val.prod)
        base == [prod |-> <<>>, flav |-> <<>>, ref |-> <<>>, ids |-> <<>>, target |-> 0,
                 found |-> FALSE, batch |-> 0, batches |-> bs, edited |-> FALSE,
                 reply |-> "fault"]
    IN  IF parsed.raised THEN base
        ELSE IF res.raised
        THEN [base EXCEPT !.prod = parsed.val.prod, !.flav = parsed.val.flav,
                          !.ref = parsed.val.ref]
        ELSE [base EXCEPT !.prod = parsed.val.prod, !.flav = parsed.val.flav,
                          !.ref = parsed.val.ref, !.ids = res.val.ids,
                          !.found = res.val.found, !.batch = res.val.batch,
                          !.batches = res.val.batches, !.target = target,
                          !.edited = TRUE,
                          !.reply = IF target = 0 THEN "channel_missing" ELSE ""]

\* Lines 335-371 of flavor_selected after read, with the posts that fail given by
\* oks: the table files, the posts attempted, and the last message to the owner
\* ("fault": an exception at line 341 or 371 nothing catches).
FlavorFinish(e, fs, read, oks) ==
    LET c == [prod |-> read.prod, flav |-> read.flav, target |-> read.target,
              dbch |-> DB_CHANNEL_ID(e), oks |-> oks]
        done == Loop([files |-> fs, attempts |-> <<>>, fault |-> FALSE], read.ids, 1, c)
    IN  IF read.reply # ""
        THEN [files |-> fs, attempts |-> <<>>, reply |-> read.reply]
        ELSE [files |-> done.files, attempts |-> done.attempts,
              reply |-> IF done.fault \/ read.prod \notin ProductTags
                                      \/ (read.ids # <<>> /\ read.flav \notin FlavorTags)
                        THEN "fault" ELSE "published"]

\* sender presses button k of message m, which shows a flavor keyboard; at most
\* maxfail of the posts fail.  The handler never reads callback.from_user.
flavor_selected(sender, m, k, maxfail) ==
    /\ kbs[m].stage = "flavor"
    /\ LET data == kbs[m].buttons[k]
           read == FlavorRead(env, batches, data)
       IN  \E oks \in OkPatterns(IF read.reply # "" THEN 0 ELSE Len(read.ids), maxfail) :
               LET run == FlavorFinish(env, files, read, oks)
               IN  /\ files' = run.files
                   /\ batches' = read.batches
                   /\ kbs' = IF read.edited
                             THEN [kbs EXCEPT ![m].stage = "closed", ![m].flav = FLAVORS[k],
                                              ![m].buttons = <<>>]
                             ELSE kbs
                   /\ last' = [op |-> "flavor", ignored |-> FALSE, sender |-> sender,
                               m |-> m, data |-> data,
                               prod |-> read.prod, flav |-> read.flav, ref |-> read.ref,
                               ids |-> read.ids, found |-> read.found,
                               target |-> read.target, attempts |-> run.attempts,
                               reply |-> run.reply]
    /\ UNCHANGED <<env, nextBatchId, users, retry, sinceBatch, tasks>>

FlavorSelected ==
    \E m \in 1..Len(kbs), k \in 1..Len(FLAVORS) :
        FLAVORS[k] \in ClickFlavors /\ flavor_selected(OWNER_ID(env), m, k, MaxFail)

(***************************************************************************)
(* The owner's workflow with every handler run to its end before the next  *)
(* one starts.                                                             *)
(***************************************************************************)
Init ==
    /\ env = FullEnv
    /\ EmptyStore
    /\ last = [op |-> "init", ignored |-> TRUE]

Next == StartBatch \/ HandleUpload \/ ProductSelected \/ FlavorSelected

Spec == Init /\ [][Next]_vars

\* C5: after a /batch n with n >= 1, the owner's uploads handled one after another
\* get no prompt before the n-th; the n-th gets the batch prompt, and the list it
\* stored is the n content ids in arrival order; later uploads get no prompt of this
\* batch, so the keyboards sent hold exactly one for it once n uploads are in.
C5_BatchCompletion ==
    (sinceBatch.id # 0 /\ sinceBatch.n >= 1) =>
        LET ups == sinceBatch.uploads
            n == sinceBatch.n
        IN  /\ \A k \in 1..Len(ups) :
                  /\ k < n => (ups[k].ref = <<>> /\ ups[k].reply = "saved")
                  /\ k = n => /\ ups[k].reply = "batch_collected"
                              /\ ups[k].ref = Str(sinceBatch.id)
                              /\ ups[k].collected = [j \in 1..n |-> ups[j].db_id]
                  /\ k > n => ups[k].ref # Str(sinceBatch.id)
            /\ Cardinality({i \in 1..Len(kbs) : kbs[i].ref = Str(sinceBatch.id)})
                  = IF Len(ups) >= n THEN 1 ELSE 0

C5_Witness ==
    /\ sinceBatch.n = 2
    /\ Len(sinceBatch.uploads) = 2
    /\ sinceBatch.uploads[1].reply = "saved"
    /\ sinceBatch.uploads[2].reply = "batch_collected"

\* C6: an upload that finds no batch row, or a latest row already holding
\* expected-many ids, is prompted as single_<id> and its id is in no batch; every
\* keyboard built for a single item is read by the flavor step as that one id and
\* touches no batch, every keyboard built for a batch is read as that batch's id.
C6_SingleFallback ==
    /\ (/\ last.op = "upload"
        /\ ~last.ignored
        /\ (~last.batch.found \/ Len(last.batch.collected) >= last.batch.expected))
       => /\ last.reply = "single"
          /\ last.ref = SINGLE_ \o Str(last.db_id)
    /\ \A i \in 1..Len(kbs) :
          LET res == Resolve(batches, kbs[i].ref)
          IN  /\ ~res.raised
              /\ kbs[i].kind = "single" =>
                    /\ res.val.batch = 0
                    /\ res.val.ids = <<kbs[i].id>>
                    /\ res.val.batches = batches
                    /\ \A b \in DOMAIN batches : \A j \in 1..Len(batches[b].collected) :
                          batches[b].collected[j] # kbs[i].id
              /\ kbs[i].kind = "batch" => res.val.batch = kbs[i].id

C6_Witness ==
    /\ last.op = "upload"
    /\ ~last.ignored
    /\ last.batch.found
    /\ last.batch.expected >= 1
    /\ Len(last.batch.collected) >= last.batch.expected
    /\ last.reply = "single"

\* C9: a flavor selection whose loop starts attempts, for every item in order, the
\* post to the routed channel and the post to the storage channel, whichever posts
\* fail; every item carries the chosen tags and the owner gets the completion message.
C9_PerItemIsolation ==
    (last.op = "flavor" /\ last.target # 0) =>
        /\ last.reply = "published"
        /\ Len(last.attempts) = 2 * Len(last.ids)
        /\ \A j \in 1..Len(last.ids) :
              /\ last.attempts[2 * j - 1].db_id = last.ids[j]
              /\ last.attempts[2 * j - 1].chat = last.target
              /\ last.attempts[2 * j].db_id = last.ids[j]
              /\ last.attempts[2 * j].chat = DB_CHANNEL_ID(env)
              /\ files[last.ids[j]].product = last.prod
              /\ files[last.ids[j]].flavor = last.flav

C9_Witness ==
    /\ last.op = "flavor"
    /\ Len(last.ids) = 2
    /\ Len(last.attempts) = 4
    /\ ~last.attempts[1].ok
    /\ ~last.attempts[2].ok
    /\ last.attempts[3].db_id = last.ids[2]
    /\ last.attempts[4].db_id = last.ids[2]
    /\ last.reply = "published"

\* C10: button k of a prompt built with reference r carries prod_p_r for the k-th
\* product p; pressing it hands the product step (p, r), which shows the flavor
\* buttons flav_p_f_r; pressing one hands the flavor step (p, f, r), and the ids the
\* step works on are the ones r denotes in the store it finds: the one content id,
\* or the collected list of the batch.
C10_ReferenceRoundTrip ==
    [][(last'.op = "product" =>
            /\ last'.data = PROD_ \o kbs'[last'.m].prod \o <<"_">> \o kbs[last'.m].ref
            /\ ~last'.fault
            /\ last'.prod = kbs'[last'.m].prod
            /\ last'.ref = kbs[last'.m].ref
            /\ kbs'[last'.m].buttons =
                  [k \in 1..Len(FLAVORS) |->
                      FLAV_ \o last'.prod \o <<"_">> \o FLAVORS[k] \o <<"_">> \o last'.ref])
       /\ (last'.op = "flavor" =>
            /\ last'.prod = kbs[last'.m].prod
            /\ last'.flav = kbs'[last'.m].flav
            /\ last'.flav \in FlavorTags
            /\ last'.ref = kbs[last'.m].ref
            /\ last'.ids = IF kbs[last'.m].kind = "single" THEN <<kbs[last'.m].id>>
                           ELSE IF kbs[last'.m].id \in DOMAIN batches
                                THEN batches[kbs[last'.m].id].collected
                                ELSE <<>>)]_vars

C10_Witness ==
    /\ last.op = "flavor"
    /\ kbs[last.m].kind = "single"
    /\ last.ref = SINGLE_ \o Str(kbs[last.m].id)
    /\ last.ids = <<kbs[last.m].id>>
    /\ last.reply = "published"

(***************************************************************************)
(* handle_upload with its awaits: between save_file (line 271), the SELECT *)
(* of line 275 and the UPDATE of line 279 the dispatcher runs the handlers *)
(* of other updates.  tasks holds the uploads in flight, in the order they *)
(* were saved.                                                             *)
(***************************************************************************)
\* lines 244-271: the owner's upload is saved; its SELECT is still to come
UploadSave ==
    /\ Len(files) < MaxFiles
    /\ files' = save_file(files)
    /\ tasks' = Append(tasks, [db_id |-> Len(files) + 1, pc |-> "fetch",
                               batch |-> FetchLatest(<<>>)])
    /\ last' = [op |-> "upload_saved", ignored |-> FALSE, db_id |-> Len(files) + 1]
    /\ UNCHANGED <<env, batches, nextBatchId, users, kbs, retry, sinceBatch>>

\* lines 274-275: upload t reads the owner's latest batch row
UploadFetch(t) ==
    /\ tasks[t].pc = "fetch"
    /\ tasks' = [tasks EXCEPT ![t].pc = "write", ![t].batch = FetchLatest(batches)]
    /\ last' = [op |-> "upload_fetched", ignored |-> FALSE, db_id |-> tasks[t].db_id]
    /\ UNCHANGED <<env, files, batches, nextBatchId, users, kbs, retry, sinceBatch>>

\* lines 277-291: upload t acts on the row it read, against the table as it is now
UploadWrite(t) ==
    /\ tasks[t].pc = "write"
    /\ LET out == UploadOutcome(batches, tasks[t].batch, tasks[t].db_id)
       IN  /\ batches' = out.batches
           /\ kbs' = kbs \o out.kb
           /\ sinceBatch' =
                 [sinceBatch EXCEPT !.uploads =
                     Append(@, [db_id |-> tasks[t].db_id, reply |-> out.reply,
                                collected |-> out.collected,
                                ref |-> IF out.kb = <<>> THEN <<>> ELSE out.kb[1].ref])]
           /\ last' = UploadRecord(OWNER_ID(env), tasks[t].db_id, tasks[t].batch, out)
    /\ tasks' = [tasks EXCEPT ![t].pc = "done"]
    /\ UNCHANGED <<env, files, nextBatchId, users, retry>>

UploadStep == \E t \in 1..Len(tasks) : UploadFetch(t) \/ UploadWrite(t)

\* The flavor step with every post delivered: its SELECT and DELETE on batches
\* (lines 322-324) are what reaches the uploads.
FlavorSelectedPosted ==
    \E m \in 1..Len(kbs), k \in 1..Len(FLAVORS) :
        FLAVORS[k] \in ClickFlavors /\ flavor_selected(OWNER_ID(env), m, k, 0)

NextConc == StartBatch \/ UploadSave \/ UploadStep \/ ProductSelected \/ FlavorSelectedPosted

SpecConc == Init /\ [][NextConc]_vars

\* C7: whatever the interleaving of the uploads' reads and writes with each other,
\* with /batch and with flavor selections, every batch row created with a positive
\* expected count holds at most expected-many ids.
C7_BatchSize ==
    \A b \in DOMAIN batches :
        batches[b].expected >= 1 => Len(batches[b].collected) <= batches[b].expected

C7_Witness ==
    \E t1, t2 \in 1..Len(tasks) :
        /\ t1 # t2
        /\ tasks[t1].pc = "done"
        /\ tasks[t2].pc = "done"
        /\ tasks[t1].batch = tasks[t2].batch
        /\ tasks[t1].batch.found
        /\ Len(tasks[t1].batch.collected) < tasks[t1].batch.expected
        /\ tasks[t1].batch.id \in DOMAIN batches
        /\ Len(batches[tasks[t1].batch.id].collected) = batches[tasks[t1].batch.id].expected

(***************************************************************************)
(* The owner's workflow under environments that leave channel variables    *)
(* unset.                                                                  *)
(***************************************************************************)
RouteEnvs ==
    { FullEnv,
      [FullEnv EXCEPT !["CH_DONUT_ID"] = 0],
      [FullEnv EXCEPT !["CH_DONUT_ID"] = 0, !["LOG_CHANNEL_ID"] = 0] }

InitRoute ==
    /\ env \in RouteEnvs
    /\ EmptyStore
    /\ last = [op |-> "init", ignored |-> TRUE]

SpecRoute == InitRoute /\ [][Next]_vars

\* C8: a flavor selection for a product with a channel of its own publishes every
\* item to that channel; for a product without one it publishes every item to the
\* default channel when that is configured, and otherwise tells the owner the
\* channel is missing and attempts no post.
C8_Routing ==
    (last.op = "flavor" /\ last.prod \in ProductTags) =>
        LET own == CHANNEL_MAP(env)[last.prod]
            dest == IF own # 0 THEN own ELSE LOG_CHANNEL_ID(env)
        IN  IF dest # 0
            THEN /\ last.reply = "published"
                 /\ Len(last.attempts) = 2 * Len(last.ids)
                 /\ \A j \in 1..Len(last.ids) :
                       /\ last.attempts[2 * j - 1].db_id = last.ids[j]
                       /\ last.attempts[2 * j - 1].chat = dest
            ELSE /\ last.reply = "channel_missing"
                 /\ last.attempts = <<>>

\* C11: a flavor selection whose reference names a batch row that is gone ends with
\* an error message to the owner: not with an unhandled fault, not with the
\* completion message, and with no post attempted.
C11_MissingBatchSafe ==
    (last.op = "flavor" /\ kbs[last.m].kind = "batch" /\ ~last.found) =>
        /\ last.reply \notin {"published", "fault"}
        /\ last.attempts = <<>>

\* C12: a start event that sent a row to the user has counted the view: every row
\* is inserted with views 0 and no operation lowers the counter, so the row sent
\* has views of at least 1.
C12_ViewCounted ==
    (last.op = "start" /\ last.reply = "media" /\ last.sent # 0) =>
        files[last.sent].views >= 1

\* C13: after a flavor selection on a batch, however it ended, the batch row is
\* either still present or every id of its collected list carries the chosen
\* product and flavor.
C13_BatchClosing ==
    (last.op = "flavor" /\ kbs[last.m].kind = "batch" /\ last.found) =>
        \/ kbs[last.m].id \in DOMAIN batches
        \/ \A j \in 1..Len(last.ids) :
              /\ files[last.ids[j]].product = last.prod
              /\ files[last.ids[j]].flavor = last.flav

\* C14: every batch row in the store has an expected count of at least 1.
C14_PositiveCount ==
    \A b \in DOMAIN batches : batches[b].expected >= 1

(***************************************************************************)
(* decode_payload on the payload of any deep link, whoever wrote it.       *)
(***************************************************************************)
MaxTokenLen == 3

\* The characters the tokens of the model are made of: letters of the base64
\* alphabet, and one character outside it.
TokenAlphabet == {"L", "T", "U", "M", "Q", "!"}

Tokens == UNION {[1..n -> TokenAlphabet] : n \in 0..MaxTokenLen}

InitDecode ==
    /\ env = FullEnv
    /\ EmptyStore
    /\ \E token \in Tokens : last = [op |-> "token", token |-> token]

\* line 199: db_id = decode_payload(payload)
DecodeToken ==
    /\ last.op = "token"
    /\ last' = [op |-> "decoded_token", token |-> last.token,
                result |-> decode_payload(last.token)]
    /\ UNCHANGED <<env, files, batches, nextBatchId, users, kbs, retry, sinceBatch, tasks>>

SpecDecode == InitDecode /\ [][DecodeToken]_vars

\* C15: decode_payload on any token either raises or returns a number that is not
\* negative.
C15_DecodeOutcomes ==
    last.op = "decoded_token" => (last.result.raised \/ last.result.val >= 0)

(***************************************************************************)
(* BroadcastEngine.  src/main.py imports the exceptions a broadcast        *)
(* handler catches (line 11) and keeps the table users (lines 105, 139),   *)
(* but holds no such handler: the engine is modelled from section 4.6 of   *)
(* the design.  tasks holds the one broadcast job.                         *)
(***************************************************************************)
MaxAudience == 3

\* The users the table holds when the owner starts the broadcast.
Audience == 2..(MaxAudience + 1)

\* What delivering to one user comes to: delivered; the user has blocked the bot;
\* another error; rate-limited, and then the one retry delivered or failed.
DeliveryOutcomes == {"delivered", "blocked", "error", "retry_delivered", "retry_failed"}

NoReport == [total |-> 0, success |-> 0, blocked |-> 0, other_failures |-> 0]

\* A count that forgets the user whose retry failed.
BroadcastCountNoRetry(report, outcome) ==
    CASE outcome \in {"delivered", "retry_delivered"} ->
             [report EXCEPT !.success = @ + 1]
      [] outcome = "blocked" -> [report EXCEPT !.blocked = @ + 1]
      [] outcome = "error" -> [report EXCEPT !.other_failures = @ + 1]
      [] OTHER -> report

\* The report after one more user's outcome.
BroadcastCount(report, outcome) ==
    CASE outcome \in {"delivered", "retry_delivered"} ->
             [report EXCEPT !.success = @ + 1]
      [] outcome = "blocked" -> [report EXCEPT !.blocked = @ + 1]
      [] OTHER -> [report EXCEPT !.other_failures = @ + 1]

\* The report of a run that meets outcomes, one user after the other.
RECURSIVE BroadcastTally(_, _)
BroadcastTally(outcomes, report) ==
    IF outcomes = <<>> THEN report
    ELSE BroadcastTally(Tail(outcomes), BroadcastCount(report, Head(outcomes)))

\* The owner starts a broadcast: the user set is read once.
BroadcastStart ==
    /\ tasks = <<>>
    /\ tasks' = <<[op |-> "broadcast", pc |-> "running", snapshot |-> users,
                   pending |-> users, outcomes |-> <<>>,
                   report |-> [NoReport EXCEPT !.total = Cardinality(users)]]>>
    /\ last' = [op |-> "broadcast_started"]
    /\ UNCHANGED <<env, files, batches, nextBatchId, users, kbs, retry, sinceBatch>>

\* The engine delivers to the next user of its snapshot; a user who has blocked
\* the bot is removed from the table.
BroadcastSend ==
    /\ tasks # <<>>
    /\ tasks[1].pc = "running"
    /\ \E u \in tasks[1].pending, outcome \in DeliveryOutcomes :
          /\ tasks' = <<[tasks[1] EXCEPT
                            !.pending = @ \ {u},
                            !.outcomes = [v \in DOMAIN @ \cup {u} |->
                                             IF v = u THEN outcome ELSE @[v]],
                            !.report = BroadcastCount(@, outcome)]>>
          /\ users' = IF outcome = "blocked" THEN users \ {u} ELSE users
          /\ last' = [op |-> "broadcast_sent", user |-> u, outcome |-> outcome]
    /\ UNCHANGED <<env, files, batches, nextBatchId, kbs, retry, sinceBatch>>

\* Every user of the snapshot has been tried: the report goes to the owner.
BroadcastFinish ==
    /\ tasks # <<>>
    /\ tasks[1].pc = "running"
    /\ tasks[1].pending = {}
    /\ tasks' = <<[tasks[1] EXCEPT !.pc = "done"]>>
    /\ last' = [op |-> "broadcast_report", report |-> tasks[1].report]
    /\ UNCHANGED <<env, files, batches, nextBatchId, users, kbs, retry, sinceBatch>>

\* A user who is not in the table yet (here the owner) opens the bot, before or
\* while the broadcast runs: line 161 adds them to the table.
BroadcastJoin == start_handler(OWNER_ID(env), SLASH_START, <<>>, FALSE)

InitBroadcast ==
    /\ env = FullEnv
    /\ files = <<>>
    /\ batches = <<>>
    /\ nextBatchId = 1
    /\ users \in SUBSET Audience
    /\ kbs = <<>>
    /\ retry = {}
    /\ sinceBatch = NoBatch
    /\ tasks = <<>>
    /\ last = [op |-> "init"]

NextBroadcast == BroadcastStart \/ BroadcastSend \/ BroadcastFinish \/ BroadcastJoin

SpecBroadcast == InitBroadcast /\ [][NextBroadcast]_vars

\* C16: the report of a finished broadcast counts every user of the snapshot taken
\* at its start in exactly one of success, blocked and other_failures: the three
\* add up to total, total is the size of the snapshot, and each count is the number
\* of snapshot users with that outcome (a rate-limited user whose retry was
\* delivered is a success).  So 10 users of whom 2 are blocked, 1 is rate-limited
\* and then delivered and 7 are delivered give total 10, success 8, blocked 2.
C16_BroadcastAccounting ==
    (tasks # <<>> /\ tasks[1].pc = "done") =>
        LET t == tasks[1]
            r == t.report
        IN  /\ BroadcastTally(<<"blocked", "delivered", "retry_delivered", "delivered",
                                "delivered", "blocked", "delivered", "delivered",
                                "delivered", "delivered">>,
                              [NoReport EXCEPT !.total = 10])
                  = [total |-> 10, success |-> 8, blocked |-> 2, other_failures |-> 0]
            /\ DOMAIN t.outcomes = t.snapshot
            /\ r.total = Cardinality(t.snapshot)
            /\ r.success + r.blocked + r.other_failures = r.total
            /\ r.success = Cardinality({u \in t.snapshot :
                              t.outcomes[u] \in {"delivered", "retry_delivered"}})
            /\ r.blocked = Cardinality({u \in t.snapshot : t.outcomes[u] = "blocked"})
            /\ r.other_failures = Cardinality({u \in t.snapshot :
                              t.outcomes[u] \in {"error", "retry_failed"}})

C16_Witness ==
    /\ tasks # <<>>
    /\ tasks[1].pc = "done"
    /\ Cardinality(tasks[1].snapshot) = 3
    /\ \E u \in users : u \notin tasks[1].snapshot
    /\ \E u \in tasks[1].snapshot : tasks[1].outcomes[u] = "blocked"
    /\ \E u \in tasks[1].snapshot : tasks[1].outcomes[u] = "retry_delivered"
    /\ \E u \in tasks[1].snapshot : tasks[1].outcomes[u] = "retry_failed"
    /\ tasks[1].report = [total |-> 3, success |-> 1, blocked |-> 1, other_failures |-> 1]

\* C17: with the uploads' reads and writes interleaved, every upload that has been
\* handled is accounted for: its id is in the collected list of the batch it found
\* room in (while that row exists), or it got a single prompt of its own; and no
\* batch has more than one classification prompt.
C17_NoLostUpload ==
    /\ \A t \in 1..Len(tasks) :
          tasks[t].pc = "done" =>
              IF HasRoom(tasks[t].batch)
              THEN tasks[t].batch.id \in DOMAIN batches =>
                      \E j \in 1..Len(batches[tasks[t].batch.id].collected) :
                          batches[tasks[t].batch.id].collected[j] = tasks[t].db_id
              ELSE \E i \in 1..Len(kbs) :
                      kbs[i].kind = "single" /\ kbs[i].id = tasks[t].db_id
    /\ \A i, j \in 1..Len(kbs) :
          (kbs[i].kind = "batch" /\ kbs[j].kind = "batch" /\ kbs[i].id = kbs[j].id) => i = j

\* C18: an upload is appended only to the newest batch the owner has started: the
\* row an upload adds its id to is the one with the last id handed out.
C18_SupersededStayClosed ==
    (last.op = "upload" /\ ~last.ignored /\ last.reply \in {"saved", "batch_collected"}) =>
        last.batch.id = nextBatchId - 1

(***************************************************************************)
(* flavor_selected with its awaits: the SELECT of line 322, the DELETE of  *)
(* line 324 and the rest of the handler (lines 327-371) are steps between  *)
(* which the dispatcher runs other handlers.  tasks holds the flavor       *)
(* callbacks in flight, in the order they arrived.  A flavor button can be *)
(* pressed as long as line 327 has not taken the keyboard off the message. *)
(***************************************************************************)
MaxPresses == 2

\* lines 312-320: the callback of button k of message m arrives, its data is
\* parsed; a single reference is resolved at once, a batch reference waits for
\* its SELECT.
FlavorPress(m, k) ==
    /\ Len(tasks) < MaxPresses
    /\ kbs[m].stage = "flavor"
    /\ LET data == kbs[m].buttons[k]
           parsed == ParseFlav(data)
           single == ~parsed.raised /\ StartsWith(parsed.val.ref, SINGLE_)
           res == Resolve(batches, parsed.val.ref)
       IN  /\ tasks' = Append(tasks,
                  [op |-> "flavor", m |-> m, k |-> k, data |-> data,
                   pc |-> IF parsed.raised \/ res.raised THEN "fault"
                          ELSE IF single THEN "publish" ELSE "select",
                   ids |-> IF single /\ ~res.raised THEN res.val.ids ELSE <<>>,
                   found |-> FALSE, attempts |-> <<>>, reply |-> ""])
           /\ last' = [op |-> "flavor_pressed", ignored |-> FALSE, m |-> m, data |-> data]
    /\ UNCHANGED <<env, files, batches, nextBatchId, users, kbs, retry, sinceBatch>>

\* lines 322-323: callback t reads the batch row its reference names
FlavorSelect(t) ==
    /\ tasks[t].pc = "select"
    /\ LET res == Resolve(batches, ParseFlav(tasks[t].data).val.ref)
       IN  tasks' = [tasks EXCEPT ![t].pc = "delete", ![t].ids = res.val.ids,
                                  ![t].found = res.val.found]
    /\ last' = [op |-> "flavor_selected_row", ignored |-> FALSE, t |-> t]
    /\ UNCHANGED <<env, files, batches, nextBatchId, users, kbs, retry, sinceBatch>>

\* line 324: callback t deletes the row
FlavorDelete(t) ==
    /\ tasks[t].pc = "delete"
    /\ batches' = Resolve(batches, ParseFlav(tasks[t].data).val.ref).val.batches
    /\ tasks' = [tasks EXCEPT ![t].pc = "publish"]
    /\ last' = [op |-> "flavor_deleted_row", ignored |-> FALSE, t |-> t]
    /\ UNCHANGED <<env, files, nextBatchId, users, kbs, retry, sinceBatch>>

\* lines 327-371: callback t takes the keyboard off the message, routes, runs the
\* loop over the ids it read (every post delivered) and reports.
FlavorPublish(t) ==
    /\ tasks[t].pc = "publish"
    /\ LET read == [FlavorRead(env, batches, tasks[t].data) EXCEPT
                       !.ids = tasks[t].ids, !.found = tasks[t].found]
           run == FlavorFinish(env, files, read, [j \in 1..(2 * Len(read.ids)) |-> TRUE])
       IN  /\ files' = run.files
           /\ kbs' = [kbs EXCEPT ![tasks[t].m].stage = "closed",
                                 ![tasks[t].m].flav = FLAVORS[tasks[t].k],
                                 ![tasks[t].m].buttons = <<>>]
           /\ tasks' = [tasks EXCEPT ![t].pc = "done", ![t].attempts = run.attempts,
                                     ![t].reply = run.reply]
           /\ last' = [op |-> "flavor", ignored |-> FALSE, m |-> tasks[t].m,
                       data |-> tasks[t].data, prod |-> read.prod, flav |-> read.flav,
                       ref |-> read.ref, ids |-> read.ids, found |-> read.found,
                       target |-> read.target, attempts |-> run.attempts,
                       reply |-> run.reply]
    /\ UNCHANGED <<env, batches, nextBatchId, users, retry, sinceBatch>>

FlavorPressed ==
    \E m \in 1..Len(kbs), k \in 1..Len(FLAVORS) :
        FLAVORS[k] \in ClickFlavors /\ FlavorPress(m, k)

FlavorStep ==
    \E t \in 1..Len(tasks) : FlavorSelect(t) \/ FlavorDelete(t) \/ FlavorPublish(t)

NextFlav == StartBatch \/ HandleUpload \/ ProductSelected \/ FlavorPressed \/ FlavorStep

SpecFlav == Init /\ [][NextFlav]_vars

\* C19: of the flavor callbacks that carry the reference of one batch, at most one
\* classifies and publishes a given content id of that batch.
C19_AtMostOnce ==
    \A t1, t2 \in 1..Len(tasks) :
        (/\ t1 # t2
         /\ tasks[t1].pc = "done"
         /\ tasks[t2].pc = "done"
         /\ kbs[tasks[t1].m].kind = "batch"
         /\ kbs[tasks[t2].m].kind = "batch"
         /\ kbs[tasks[t1].m].id = kbs[tasks[t2].m].id)
        => \A i \in 1..Len(tasks[t1].attempts), j \in 1..Len(tasks[t2].attempts) :
              tasks[t1].attempts[i].db_id # tasks[t2].attempts[j].db_id

(***************************************************************************)
(* The workflow with every sender: a keyboard posted in a chat that has    *)
(* other members (a group the bot and the owner are in) can be pressed by  *)
(* any of them, and Telegram delivers the callback with the presser as     *)
(* callback.from_user.                                                     *)
(***************************************************************************)
ProductSelectedByAny ==
    \E sender \in Users, m \in 1..Len(kbs), k \in 1..Len(PRODUCTS) :
        PRODUCTS[k] \in ClickProducts /\ product_selected(sender, m, k)

FlavorSelectedByAny ==
    \E sender \in Users, m \in 1..Len(kbs), k \in 1..Len(FLAVORS) :
        FLAVORS[k] \in ClickFlavors /\ flavor_selected(sender, m, k, 0)

NextSenders == StartBatch \/ HandleUpload \/ ProductSelectedByAny \/ FlavorSelectedByAny

SpecSenders == Init /\ [][NextSenders]_vars

\* C20: a batch command, upload, product selection or flavor selection whose sender
\* is not the owner leaves the content records and the batch records as they were
\* and publishes nothing.
C20_OwnerOnly ==
    [][(/\ last'.op \in {"batch", "upload", "product", "flavor"}
        /\ last'.sender # OWNER_ID(env))
       => (/\ files' = files
           /\ batches' = batches
           /\ nextBatchId' = nextBatchId
           /\ (last'.op = "flavor" => last'.attempts = <<>>))]_vars

====
